---- MODULE Spec2Model ----
(***************************************************************************)
(* Model of entropy.py: Shannon entropy of probability distributions,      *)
(* frequency distributions, sample sequences and flattened 2-D frequency   *)
(* tables.                                                                 *)
(*                                                                         *)
(* Number representation.  The inputs of the program are floats.  Here an  *)
(* input number x is the integer x * Q (Q = 256), so every input is a      *)
(* dyadic rational that the program's doubles hold exactly, and sums and   *)
(* products of inputs are exact as they are in the program.  Entropies are *)
(* fixed-point integers in units of 1/Scale bit (Scale = 10^6).  math.log  *)
(* is a library function; it is modelled by its values on the odd integers *)
(* below 2048, rounded to 1/Scale, and by log2(2n) = 1 + log2(n).          *)
(* A Python exception leaving a function is the result record with         *)
(* raised = TRUE.                                                          *)
(***************************************************************************)
EXTENDS Integers, Sequences, FiniteSets, TLC

VARIABLES distribution, binSize, rows, called, result, rc

vars == <<distribution, binSize, rows, called, result, rc>>

(***************************************************************************)
(* Bounds of the model.                                                    *)
(***************************************************************************)
\* longest sequence handed to the scalar operations
MaxLen == 3
\* largest number of cells of a flattened table
MaxCells == 4
\* largest frequency of a table cell (the smallest is -1)
MaxFreq == 2
\* largest row count handed to the table operations (the smallest is -1)
MaxRows == 5

(***************************************************************************)
(* Number representation.                                                  *)
(***************************************************************************)
\* an input number x is the integer x * Q
Q == 2^8
\* an entropy h is the integer h * Scale
Scale == 10^6
\* the error return of every function: -1
Sentinel == -1 * Scale

\* math.log(n, 2) * Scale for n = 1, 3, 5, ..., 2047
Log2Odd ==
  <<
     0, 1584963, 2321928, 2807355, 3169925, 3459432, 3700440, 3906891,
     4087463, 4247928, 4392317, 4523562, 4643856, 4754888, 4857981, 4954196,
     5044394, 5129283, 5209453, 5285402, 5357552, 5426265, 5491853, 5554589,
     5614710, 5672425, 5727920, 5781360, 5832890, 5882643, 5930737, 5977280,
     6022368, 6066089, 6108524, 6149747, 6189825, 6228819, 6266787, 6303781,
     6339850, 6375039, 6409391, 6442943, 6475733, 6507795, 6539159, 6569856,
     6599913, 6629357, 6658211, 6686501, 6714246, 6741467, 6768184, 6794416,
     6820179, 6845490, 6870365, 6894818, 6918863, 6942515, 6965784, 6988685,
     7011227, 7033423, 7055282, 7076816, 7098032, 7118941, 7139551, 7159871,
     7179909, 7199672, 7219169, 7238405, 7257388, 7276124, 7294621, 7312883,
     7330917, 7348728, 7366322, 7383704, 7400879, 7417853, 7434628, 7451211,
     7467606, 7483816, 7499846, 7515700, 7531381, 7546894, 7562242, 7577429,
     7592457, 7607330, 7622052, 7636625, 7651052, 7665336, 7679480, 7693487,
     7707359, 7721099, 7734710, 7748193, 7761551, 7774787, 7787903, 7800900,
     7813781, 7826548, 7839204, 7851749, 7864186, 7876517, 7888743, 7900867,
     7912889, 7924813, 7936638, 7948367, 7960002, 7971544, 7982994, 7994353,
     8005625, 8016808, 8027906, 8038919, 8049849, 8060696, 8071462, 8082149,
     8092757, 8103288, 8113742, 8124121, 8134426, 8144658, 8154818, 8164907,
     8174926, 8184875, 8194757, 8204571, 8214319, 8224002, 8233620, 8243174,
     8252665, 8262095, 8271463, 8280771, 8290019, 8299208, 8308339, 8317413,
     8326429, 8335390, 8344296, 8353147, 8361944, 8370687, 8379378, 8388017,
     8396605, 8405141, 8413628, 8422065, 8430453, 8438792, 8447083, 8455327,
     8463524, 8471675, 8479780, 8487840, 8495855, 8503826, 8511753, 8519636,
     8527477, 8535275, 8543032, 8550747, 8558421, 8566054, 8573647, 8581201,
     8588715, 8596190, 8603626, 8611025, 8618386, 8625709, 8632995, 8640245,
     8647458, 8654636, 8661778, 8668885, 8675957, 8682995, 8689998, 8696968,
     8703904, 8710806, 8717676, 8724514, 8731319, 8738092, 8744834, 8751544,
     8758223, 8764872, 8771489, 8778077, 8784635, 8791163, 8797662, 8804131,
     8810572, 8816984, 8823367, 8829723, 8836050, 8842350, 8848623, 8854868,
     8861087, 8867279, 8873444, 8879583, 8885696, 8891784, 8897845, 8903882,
     8909893, 8915879, 8921841, 8927778, 8933691, 8939579, 8945444, 8951285,
     8957102, 8962896, 8968667, 8974415, 8980140, 8985842, 8991522, 8997179,
     9002815, 9008429, 9014020, 9019591, 9025140, 9030667, 9036174, 9041659,
     9047124, 9052568, 9057992, 9063395, 9068778, 9074141, 9079485, 9084808,
     9090112, 9095397, 9100662, 9105909, 9111136, 9116344, 9121534, 9126704,
     9131857, 9136991, 9142107, 9147205, 9152285, 9157347, 9162391, 9167418,
     9172428, 9177420, 9182394, 9187352, 9192293, 9197217, 9202124, 9207014,
     9211888, 9216746, 9221587, 9226412, 9231221, 9236014, 9240791, 9245553,
     9250298, 9255029, 9259743, 9264443, 9269127, 9273796, 9278449, 9283088,
     9287712, 9292322, 9296916, 9301496, 9306062, 9310613, 9315150, 9319672,
     9324181, 9328675, 9333155, 9337622, 9342075, 9346514, 9350939, 9355351,
     9359750, 9364135, 9368506, 9372865, 9377211, 9381543, 9385862, 9390169,
     9394463, 9398744, 9403012, 9407268, 9411511, 9415742, 9419960, 9424166,
     9428360, 9432542, 9436712, 9440869, 9445015, 9449149, 9453271, 9457381,
     9461479, 9465566, 9469642, 9473706, 9477758, 9481799, 9485829, 9489848,
     9493855, 9497852, 9501837, 9505812, 9509775, 9513728, 9517669, 9521600,
     9525521, 9529431, 9533330, 9537218, 9541097, 9544964, 9548822, 9552669,
     9556506, 9560333, 9564149, 9567956, 9571753, 9575539, 9579316, 9583083,
     9586840, 9590587, 9594325, 9598053, 9601771, 9605480, 9609179, 9612868,
     9616549, 9620220, 9623881, 9627534, 9631177, 9634811, 9638436, 9642052,
     9645658, 9649256, 9652845, 9656425, 9659996, 9663558, 9667112, 9670656,
     9674192, 9677720, 9681238, 9684749, 9688250, 9691744, 9695228, 9698705,
     9702173, 9705632, 9709084, 9712527, 9715962, 9719389, 9722808, 9726218,
     9729621, 9733015, 9736402, 9739781, 9743151, 9746514, 9749869, 9753217,
     9756556, 9759888, 9763212, 9766529, 9769838, 9773139, 9776433, 9779719,
     9782998, 9786270, 9789534, 9792790, 9796040, 9799282, 9802516, 9805744,
     9808964, 9812177, 9815383, 9818582, 9821774, 9824959, 9828136, 9831307,
     9834471, 9837628, 9840778, 9843921, 9847057, 9850187, 9853310, 9856426,
     9859535, 9862637, 9865733, 9868823, 9871905, 9874981, 9878051, 9881114,
     9884171, 9887221, 9890264, 9893302, 9896332, 9899357, 9902375, 9905387,
     9908393, 9911392, 9914385, 9917372, 9920353, 9923327, 9926296, 9929258,
     9932215, 9935165, 9938109, 9941048, 9943980, 9946906, 9949827, 9952741,
     9955650, 9958553, 9961450, 9964341, 9967226, 9970106, 9972980, 9975848,
     9978710, 9981567, 9984418, 9987264, 9990104, 9992938, 9995767, 9998590,
     10001408, 10004220, 10007027, 10009829, 10012625, 10015415, 10018200, 10020980,
     10023754, 10026523, 10029287, 10032046, 10034799, 10037547, 10040290, 10043027,
     10045760, 10048487, 10051209, 10053926, 10056638, 10059344, 10062046, 10064743,
     10067434, 10070121, 10072803, 10075479, 10078151, 10080818, 10083479, 10086136,
     10088788, 10091435, 10094078, 10096715, 10099348, 10101976, 10104599, 10107217,
     10109831, 10112440, 10115044, 10117643, 10120238, 10122828, 10125413, 10127994,
     10130571, 10133142, 10135709, 10138272, 10140830, 10143383, 10145932, 10148477,
     10151017, 10153552, 10156083, 10158610, 10161132, 10163650, 10166163, 10168672,
     10171177, 10173677, 10176173, 10178665, 10181152, 10183635, 10186114, 10188589,
     10191059, 10193525, 10195987, 10198445, 10200899, 10203348, 10205793, 10208234,
     10210671, 10213104, 10215533, 10217958, 10220378, 10222795, 10225207, 10227616,
     10230020, 10232421, 10234817, 10237210, 10239599, 10241983, 10244364, 10246741,
     10249113, 10251482, 10253847, 10256209, 10258566, 10260920, 10263269, 10265615,
     10267957, 10270295, 10272630, 10274960, 10277287, 10279611, 10281930, 10284246,
     10286558, 10288866, 10291171, 10293472, 10295769, 10298063, 10300353, 10302639,
     10304922, 10307201, 10309476, 10311748, 10314017, 10316282, 10318543, 10320801,
     10323055, 10325305, 10327553, 10329796, 10332037, 10334273, 10336507, 10338736,
     10340963, 10343186, 10345405, 10347621, 10349834, 10352043, 10354249, 10356452,
     10358651, 10360847, 10363040, 10365229, 10367415, 10369597, 10371777, 10373953,
     10376125, 10378295, 10380461, 10382624, 10384784, 10386940, 10389094, 10391244,
     10393390, 10395534, 10397675, 10399812, 10401946, 10404077, 10406205, 10408330,
     10410451, 10412570, 10414685, 10416798, 10418907, 10421013, 10423116, 10425216,
     10427313, 10429407, 10431498, 10433585, 10435670, 10437752, 10439831, 10441907,
     10443980, 10446049, 10448116, 10450180, 10452241, 10454299, 10456354, 10458407,
     10460456, 10462502, 10464546, 10466586, 10468624, 10470659, 10472691, 10474720,
     10476746, 10478770, 10480790, 10482808, 10484823, 10486835, 10488844, 10490851,
     10492855, 10494856, 10496854, 10498849, 10500842, 10502832, 10504819, 10506803,
     10508785, 10510764, 10512740, 10514714, 10516685, 10518653, 10520619, 10522582,
     10524542, 10526499, 10528454, 10530406, 10532356, 10534303, 10536247, 10538189,
     10540128, 10542065, 10543998, 10545930, 10547859, 10549785, 10551708, 10553629,
     10555548, 10557464, 10559377, 10561288, 10563196, 10565102, 10567005, 10568906,
     10570804, 10572700, 10574594, 10576484, 10578373, 10580259, 10582142, 10584023,
     10585901, 10587778, 10589651, 10591522, 10593391, 10595257, 10597121, 10598983,
     10600842, 10602699, 10604553, 10606405, 10608255, 10610102, 10611947, 10613789,
     10615630, 10617467, 10619303, 10621136, 10622967, 10624795, 10626622, 10628446,
     10630267, 10632086, 10633903, 10635718, 10637531, 10639341, 10641149, 10642954,
     10644758, 10646559, 10648358, 10650154, 10651949, 10653741, 10655531, 10657318,
     10659104, 10660887, 10662668, 10664447, 10666224, 10667999, 10669771, 10671541,
     10673309, 10675075, 10676839, 10678600, 10680360, 10682117, 10683872, 10685625,
     10687376, 10689124, 10690871, 10692616, 10694358, 10696098, 10697836, 10699572,
     10701306, 10703038, 10704768, 10706496, 10708222, 10709945, 10711667, 10713387,
     10715104, 10716819, 10718533, 10720244, 10721954, 10723661, 10725366, 10727070,
     10728771, 10730470, 10732167, 10733863, 10735556, 10737247, 10738937, 10740624,
     10742309, 10743993, 10745674, 10747354, 10749031, 10750707, 10752381, 10754052,
     10755722, 10757390, 10759056, 10760720, 10762382, 10764042, 10765700, 10767357,
     10769011, 10770664, 10772315, 10773963, 10775610, 10777255, 10778898, 10780540,
     10782179, 10783817, 10785452, 10787086, 10788718, 10790348, 10791977, 10793603,
     10795228, 10796851, 10798472, 10800091, 10801708, 10803324, 10804938, 10806550,
     10808160, 10809768, 10811375, 10812979, 10814582, 10816184, 10817783, 10819381,
     10820977, 10822571, 10824163, 10825754, 10827343, 10828930, 10830515, 10832099,
     10833681, 10835261, 10836839, 10838416, 10839991, 10841564, 10843136, 10844706,
     10846274, 10847840, 10849405, 10850968, 10852530, 10854089, 10855647, 10857203,
     10858758, 10860311, 10861862, 10863412, 10864960, 10866506, 10868051, 10869594,
     10871135, 10872675, 10874213, 10875749, 10877284, 10878817, 10880349, 10881879,
     10883407, 10884934, 10886459, 10887982, 10889504, 10891024, 10892543, 10894060,
     10895575, 10897089, 10898601, 10900112, 10901621, 10903129, 10904635, 10906139,
     10907642, 10909143, 10910643, 10912141, 10913637, 10915132, 10916626, 10918118,
     10919608, 10921097, 10922584, 10924070, 10925554, 10927037, 10928518, 10929998,
     10931476, 10932953, 10934428, 10935902, 10937374, 10938844, 10940314, 10941781,
     10943247, 10944712, 10946175, 10947637, 10949097, 10950556, 10952013, 10953469,
     10954923, 10956376, 10957828, 10959278, 10960726, 10962173, 10963619, 10965063,
     10966505, 10967947, 10969387, 10970825, 10972262, 10973697, 10975131, 10976564,
     10977995, 10979425, 10980854, 10982281, 10983706, 10985130, 10986553, 10987975,
     10989394, 10990813, 10992230, 10993646, 10995060, 10996473, 10997885, 10999295
  >>

RECURSIVE Log2Int(_)
\* math.log(n, 2) * Scale of a positive integer n
Log2Int(n) ==
  IF n % 2 = 0 THEN Scale + Log2Int(n \div 2) ELSE Log2Odd[(n + 1) \div 2]

RECURSIVE GCD(_, _)
GCD(a, b) == IF b = 0 THEN a ELSE GCD(b, a % b)

\* math.log(n / d, 2) * Scale of a positive rational n / d
Log2(n, d) == Log2Int(n) - Log2Int(d)

\* Px * math.log(Px, 2) * Scale for Px = n / d > 0
PxLogPx(n, d) ==
  LET g == GCD(n, d)
      a == n \div g
      b == d \div g
  IN  (a * Log2(a, b)) \div b

\* round(n / d, 2) in hundredths (Python 3: exact ties go to the even digit)
Round2(n, d) ==
  LET q == (200 * n + d) \div (2 * d)
      tie == (200 * n + d) % (2 * d) = 0
  IN  IF tie /\ q % 2 # 0 THEN q - 1 ELSE q

RECURSIVE Sum(_)
\* sum(distribution)
Sum(s) == IF s = <<>> THEN 0 ELSE Head(s) + Sum(Tail(s))

RECURSIVE Min(_)
\* min(distribution), of a non-empty sequence
Min(s) ==
  IF Len(s) = 1 THEN s[1]
  ELSE LET m == Min(Tail(s)) IN IF s[1] < m THEN s[1] ELSE m

\* max(rows, 1)
Max(a, b) == IF a > b THEN a ELSE b

(***************************************************************************)
(* Results.  value is the returned number; failed names the validation     *)
(* branch that set the error return ("none" when the value was computed);  *)
(* added counts the cells a table operation added to a row or column       *)
(* total.                                                                  *)
(***************************************************************************)
Value(v) == [raised |-> FALSE, value |-> v, failed |-> "none", added |-> 0]

Error(why) == [raised |-> FALSE, value |-> Sentinel, failed |-> why, added |-> 0]

\* an exception leaves the function: ZeroDivisionError, ValueError
Raised == [raised |-> TRUE, value |-> 0, failed |-> "none", added |-> 0]

NoResult == [raised |-> FALSE, value |-> 0, failed |-> "none", added |-> 0]

NoRc == [HXY |-> 0, HX |-> 0, HY |-> 0, HXgY |-> 0, HYgX |-> 0, IXY |-> 0]

(***************************************************************************)
(* The scalar operations.                                                  *)
(***************************************************************************)
RECURSIVE EntropySum(_, _, _)
\* the loop "for i in range(0, len(distribution))" over Px = s[i] * mul / den:
\* HX = HX - Px * math.log(Px, 2) for every Px > 0
EntropySum(s, mul, den) ==
  IF s = <<>> THEN 0
  ELSE LET n == Head(s) * mul
           rest == EntropySum(Tail(s), mul, den)
           pos == (n > 0 /\ den > 0) \/ (n < 0 /\ den < 0)
           abs(x) == IF x < 0 THEN -x ELSE x
       IN  IF pos THEN rest - PxLogPx(abs(n), abs(den)) ELSE rest

\* round(sum(distribution), 2) != 1.0
SumCheckFails(d) == Round2(Sum(d), Q) # 100

\* min(distribution) < 0.0
MinCheckFails(d) == Min(d) < 0

\* the validation without the check for negative probabilities
MutEntropyFromProbabilityNoMinCheck(d) ==
  IF SumCheckFails(d) THEN Error("sum")
  ELSE Value(EntropySum(d, 1, Q))

\* the accumulation with the sign of the term reversed
MutEntropyFromProbabilityWrongSign(d) ==
  IF SumCheckFails(d) THEN Error("sum")
  ELSE IF MinCheckFails(d) THEN Error("min")
  ELSE Value(0 - EntropySum(d, 1, Q))

EntropyFromProbabilityDistribution(d) ==
  IF SumCheckFails(d) THEN Error("sum")
  ELSE IF MinCheckFails(d) THEN Error("min")
  ELSE Value(EntropySum(d, 1, Q))

\* the sum check of the operation without a bin size, taken over unchanged
MutBinSumCheckWithoutBinSize(d, b) == Round2(Sum(d), Q) # 100

\* round(sum(distribution) * binSize, 2) != 1.0
BinSumCheckFails(d, b) == Round2(Sum(d) * b, Q * Q) # 100

DifferentialEntropyFromProbabilityDistribution(d, b) ==
  IF BinSumCheckFails(d, b) THEN Error("sum")
  ELSE IF MinCheckFails(d) THEN Error("min")
  ELSE IF b < 0 THEN Error("bin")
  ELSE IF Len(d) > 1
       THEN IF b = 0 THEN Raised  \* math.log(0, 2): ValueError
            ELSE Value(EntropySum(d, b, Q * Q) + Log2(b, Q))
       ELSE Value(0)

EntropyFromFrequencyDistribution(d) ==
  IF Len(d) < 1 THEN Error("len")
  ELSE IF MinCheckFails(d) THEN Error("min")
  ELSE IF Sum(d) = 0 THEN Raised  \* float(distribution[0]) / 0: ZeroDivisionError
  ELSE Value(EntropySum(d, 1, Sum(d)))

DifferentialEntropyFromFrequencyDistribution(d, b) ==
  IF Len(d) < 1 THEN Error("len")
  ELSE IF MinCheckFails(d) THEN Error("min")
  ELSE IF b <= 0 THEN Error("bin")
  ELSE IF Len(d) > 1
       THEN IF Sum(d) = 0 THEN Raised  \* ZeroDivisionError
            ELSE Value(EntropySum(d, 1, Sum(d)) + Log2(b, Q))
       ELSE Value(0)

RECURSIVE Insert(_, _)
\* x put in its place in the ascending sequence s
Insert(x, s) ==
  IF s = <<>> THEN <<x>>
  ELSE IF x <= Head(s) THEN <<x>> \o s ELSE <<Head(s)>> \o Insert(x, Tail(s))

RECURSIVE sorted(_)
\* sorted(distribution)
sorted(s) == IF s = <<>> THEN <<>> ELSE Insert(Head(s), sorted(Tail(s)))

RECURSIVE Keys(_, _)
\* the keys of collections.Counter(s), in the order of their first occurrence
Keys(s, seen) ==
  IF s = <<>> THEN seen
  ELSE IF \E i \in 1..Len(seen) : seen[i] = Head(s)
       THEN Keys(Tail(s), seen)
       ELSE Keys(Tail(s), Append(seen, Head(s)))

\* collections.Counter(s).values(): the number of occurrences of each key
CounterValues(s) ==
  LET keys == Keys(s, <<>>)
  IN  [k \in 1..Len(keys) |-> Cardinality({i \in 1..Len(s) : s[i] = keys[k]})]

\* the sample size taken as the number of distinct outcomes
MutSampleSizeDistinct(d) == Cardinality({d[i] : i \in 1..Len(d)})

\* sampleSize = len(distribution)
SampleSize(d) == Len(d)

EntropyFromSampleDistribution(d) ==
  IF Len(d) < 1 THEN Error("len")
  ELSE Value(EntropySum(CounterValues(sorted(d)), 1, SampleSize(d)))

(***************************************************************************)
(* The operations on a flattened table of rows x columns frequencies.      *)
(***************************************************************************)
\* columns = int(len(distribution) / rows), after rows = max(rows, 1)
Columns(d, r) == Len(d) \div Max(r, 1)

\* the shape check as "the rows fit", not "the rows fit exactly"
MutIsTableAtMost(d, r) == Columns(d, r) * Max(r, 1) <= Len(d)

\* columns * rows == len(distribution)
IsTable(d, r) == Columns(d, r) * Max(r, 1) = Len(d)

RECURSIVE CellSum(_, _, _, _)
\* the inner loops: d[first] + d[first + step] + ... , n cells (0-based first)
CellSum(d, first, step, n) ==
  IF n = 0 THEN 0 ELSE d[first + 1] + CellSum(d, first + step, step, n - 1)

EntropyHXFromFrequencyDistribution(d, r) ==
  LET nrows == Max(r, 1)
      columns == Columns(d, r)
      listx == [row \in 1..nrows |-> CellSum(d, (row - 1) * columns, 1, columns)]
  IN  IF IsTable(d, r)
      THEN [EntropyFromFrequencyDistribution(listx) EXCEPT !.added = nrows * columns]
      ELSE Error("shape")

RECURSIVE HYLoop(_, _, _, _, _)
\* the loop "for col in range(0, columns)": the column total is appended to
\* listy and HY is computed from listy as it stands, in every iteration
HYLoop(d, nrows, col, listy, HY) ==
  LET columns == Len(d) \div nrows
      total == CellSum(d, col, columns, nrows)
      next == EntropyFromFrequencyDistribution(Append(listy, total))
  IN  IF col = columns THEN HY
      ELSE IF next.raised THEN [Raised EXCEPT !.added = HY.added + nrows]
      ELSE HYLoop(d, nrows, col + 1, Append(listy, total),
                  [next EXCEPT !.added = HY.added + nrows])

EntropyHYFromFrequencyDistribution(d, r) ==
  IF IsTable(d, r) THEN HYLoop(d, Max(r, 1), 0, <<>>, Error("shape"))
  ELSE Error("shape")

RECURSIVE Digits(_)
\* floor(log10(n)) of a positive integer n
Digits(n) == IF n < 10 THEN 0 ELSE 1 + Digits(n \div 10)

\* round(v, ndigits) with 10^-ndigits = unit (Python 3: ties to even)
RoundTo(v, unit) ==
  LET q == (2 * v + unit) \div (2 * unit)
      tie == (2 * v + unit) % (2 * unit) = 0
  IN  unit * (IF tie /\ q % 2 # 0 THEN q - 1 ELSE q)

\* RoundSF(num, sigfigs), num = v / Scale
RoundSF(v, sigfigs) ==
  LET a == IF v < 0 THEN -v ELSE v
      k == Digits(a) - (sigfigs - 1)
  IN  IF v = 0 THEN 0
      ELSE IF k <= 0 THEN v
      ELSE RoundTo(v, 10^k)

EntropyValuesFromFrequencyDistribution(d, r) ==
  LET HXY == EntropyFromFrequencyDistribution(d)
      HX == EntropyHXFromFrequencyDistribution(d, r)
      HY == EntropyHYFromFrequencyDistribution(d, r)
      HYgX == IF HX.value # Sentinel THEN HXY.value - HX.value ELSE Sentinel
      HXgY == IF HY.value # Sentinel THEN HXY.value - HY.value ELSE Sentinel
      IXY == IF HX.value # Sentinel /\ HY.value # Sentinel /\ HXY.value # Sentinel
             THEN HX.value + HY.value - HXY.value
             ELSE Sentinel
  IN  IF HXY.raised \/ HX.raised \/ HY.raised
      THEN [raised |-> TRUE, rc |-> NoRc]
      ELSE [raised |-> FALSE,
            rc |-> [HXY |-> RoundSF(HXY.value, 3), HX |-> RoundSF(HX.value, 3),
                    HY |-> RoundSF(HY.value, 3), HXgY |-> RoundSF(HXgY, 3),
                    HYgX |-> RoundSF(HYgX, 3), IXY |-> RoundSF(IXY, 3)]]

(***************************************************************************)
(* The inputs, and one action per public function.  The library keeps no   *)
(* state between calls: a call reads its arguments and leaves its result.  *)
(***************************************************************************)
SeqsUpTo(S, n) == UNION {[1..k -> S] : k \in 0..n}

\* -0.5, 0, 0.25, 0.5, 255/256, 1, 257/256, 2
Values == {-128, 0, 64, 128, 255, 256, 257, 512}

\* -1, 0, 0.25, 0.5, 1, 2
BinSizes == {-256, 0, 64, 128, 256, 512}

Frequencies == {f * Q : f \in -1..MaxFreq}

RowCounts == -1..MaxRows

Init ==
  /\ distribution \in SeqsUpTo(Values, MaxLen)
  /\ binSize \in BinSizes
  /\ rows = 1
  /\ called = "none"
  /\ result = NoResult
  /\ rc = NoRc

InitTable ==
  /\ distribution \in SeqsUpTo(Frequencies, MaxCells)
  /\ binSize = Q
  /\ rows \in RowCounts
  /\ called = "none"
  /\ result = NoResult
  /\ rc = NoRc

Return(name, res) ==
  /\ called' = name
  /\ result' = res
  /\ rc' = NoRc
  /\ UNCHANGED <<distribution, binSize, rows>>

CallEntropyFromProbabilityDistribution ==
  Return("EntropyFromProbabilityDistribution",
         EntropyFromProbabilityDistribution(distribution))

CallDifferentialEntropyFromProbabilityDistribution ==
  Return("DifferentialEntropyFromProbabilityDistribution",
         DifferentialEntropyFromProbabilityDistribution(distribution, binSize))

CallEntropyFromFrequencyDistribution ==
  Return("EntropyFromFrequencyDistribution",
         EntropyFromFrequencyDistribution(distribution))

CallDifferentialEntropyFromFrequencyDistribution ==
  Return("DifferentialEntropyFromFrequencyDistribution",
         DifferentialEntropyFromFrequencyDistribution(distribution, binSize))

CallEntropyFromSampleDistribution ==
  Return("EntropyFromSampleDistribution",
         EntropyFromSampleDistribution(distribution))

CallEntropyHXFromFrequencyDistribution ==
  Return("EntropyHXFromFrequencyDistribution",
         EntropyHXFromFrequencyDistribution(distribution, rows))

CallEntropyHYFromFrequencyDistribution ==
  Return("EntropyHYFromFrequencyDistribution",
         EntropyHYFromFrequencyDistribution(distribution, rows))

CallEntropyValuesFromFrequencyDistribution ==
  LET out == EntropyValuesFromFrequencyDistribution(distribution, rows)
  IN  /\ called' = "EntropyValuesFromFrequencyDistribution"
      /\ result' = [NoResult EXCEPT !.raised = out.raised]
      /\ rc' = out.rc
      /\ UNCHANGED <<distribution, binSize, rows>>

Next ==
  \/ CallEntropyFromProbabilityDistribution
  \/ CallDifferentialEntropyFromProbabilityDistribution
  \/ CallEntropyFromFrequencyDistribution
  \/ CallDifferentialEntropyFromFrequencyDistribution
  \/ CallEntropyFromSampleDistribution

NextTable ==
  \/ CallEntropyFromFrequencyDistribution
  \/ CallEntropyHXFromFrequencyDistribution
  \/ CallEntropyHYFromFrequencyDistribution
  \/ CallEntropyValuesFromFrequencyDistribution

\* the scalar operations, on sequences of numbers and a bin size
Spec == Init /\ [][Next]_vars

\* the table operations, on flattened tables of frequencies and a row count
SpecTable == InitTable /\ [][NextTable]_vars

(***************************************************************************)
(* Vocabulary of the properties.                                           *)
(***************************************************************************)
HasNegative(d) == \E i \in 1..Len(d) : d[i] < 0

\* one entry equal to 1.0, all others 0
IsMassPoint(d) ==
  \E i \in 1..Len(d) : d[i] = Q /\ \A j \in 1..Len(d) : j # i => d[j] = 0

\* the column totals of the flattened table d of nrows rows
ColumnTotals(d, nrows) ==
  LET columns == Len(d) \div nrows
  IN  [c \in 1..columns |->
         Sum([row \in 1..nrows |-> d[(row - 1) * columns + c]])]

RECURSIVE Ascending(_)
\* the elements of a finite set of integers, smallest first
Ascending(S) ==
  IF S = {} THEN <<>>
  ELSE LET m == CHOOSE x \in S : \A y \in S : x <= y
       IN  <<m>> \o Ascending(S \ {m})

\* the number of occurrences of each distinct outcome of the sample d
OccurrenceCounts(d) ==
  LET outcomes == Ascending({d[i] : i \in 1..Len(d)})
  IN  [k \in 1..Len(outcomes) |->
         Cardinality({i \in 1..Len(d) : d[i] = outcomes[k]})]

\* the validation checks of a scalar operation that fail on (d, b), each
\* evaluated on its own
FailingChecks(op, d, b) ==
  CASE op = "EntropyFromProbabilityDistribution" ->
         {c \in {"sum", "min"} :
            \/ c = "sum" /\ SumCheckFails(d)
            \/ c = "min" /\ MinCheckFails(d)}
    [] op = "DifferentialEntropyFromProbabilityDistribution" ->
         {c \in {"sum", "min", "bin"} :
            \/ c = "sum" /\ BinSumCheckFails(d, b)
            \/ c = "min" /\ MinCheckFails(d)
            \/ c = "bin" /\ b < 0}
    [] op = "EntropyFromFrequencyDistribution" ->
         {c \in {"min"} : MinCheckFails(d)}
    [] op = "DifferentialEntropyFromFrequencyDistribution" ->
         {c \in {"min", "bin"} :
            \/ c = "min" /\ MinCheckFails(d)
            \/ c = "bin" /\ b <= 0}

ScalarOperations ==
  {"EntropyFromProbabilityDistribution",
   "DifferentialEntropyFromProbabilityDistribution",
   "EntropyFromFrequencyDistribution",
   "DifferentialEntropyFromFrequencyDistribution"}

DifferentialOperations ==
  {"DifferentialEntropyFromProbabilityDistribution",
   "DifferentialEntropyFromFrequencyDistribution"}

MarginalOperations ==
  {"EntropyHXFromFrequencyDistribution", "EntropyHYFromFrequencyDistribution"}

\* the bin sizes with which the operation returns the error return for every
\* sequence
BinSizesRejectedByProbability ==
  {b \in BinSizes :
     \A d \in SeqsUpTo(Values, MaxLen) :
       DifferentialEntropyFromProbabilityDistribution(d, b).failed # "none"}

BinSizesRejectedByFrequency ==
  {b \in BinSizes :
     \A d \in SeqsUpTo(Values, MaxLen) :
       DifferentialEntropyFromFrequencyDistribution(d, b).failed # "none"}

(***************************************************************************)
(* C1.  In the bundle EntropyValuesFromFrequencyDistribution returns, a    *)
(* quantity whose prerequisite is the error return -1 is -1 itself: HY|X   *)
(* when HXY or HX is -1, HX|Y when HXY or HY is -1, IXY when any of HX,    *)
(* HY, HXY is -1.                                                          *)
(***************************************************************************)
C1_SentinelPropagates ==
  (called = "EntropyValuesFromFrequencyDistribution" /\ ~result.raised) =>
    /\ (rc.HXY = Sentinel \/ rc.HX = Sentinel) => rc.HYgX = Sentinel
    /\ (rc.HXY = Sentinel \/ rc.HY = Sentinel) => rc.HXgY = Sentinel
    /\ (rc.HXY = Sentinel \/ rc.HX = Sentinel \/ rc.HY = Sentinel)
         => rc.IXY = Sentinel

(***************************************************************************)
(* C2.  On a table of non-negative frequencies with a positive total and a *)
(* row count that divides its length, EntropyHYFromFrequencyDistribution   *)
(* does not raise and returns the entropy of the column totals.            *)
(***************************************************************************)
C2_HYIsEntropyOfColumnTotals ==
  (/\ called = "EntropyHYFromFrequencyDistribution"
   /\ ~HasNegative(distribution)
   /\ Sum(distribution) > 0
   /\ rows >= 1
   /\ Len(distribution) % rows = 0) =>
    /\ ~result.raised
    /\ result.value =
         EntropyFromFrequencyDistribution(ColumnTotals(distribution, rows)).value

(***************************************************************************)
(* C3.  On a sequence of one or more non-negative frequencies, all zero    *)
(* included, EntropyFromFrequencyDistribution does not raise: it returns a *)
(* non-negative entropy or -1.                                             *)
(***************************************************************************)
C3_FrequencyEntropyNeverRaises ==
  (/\ called = "EntropyFromFrequencyDistribution"
   /\ Len(distribution) >= 1
   /\ ~HasNegative(distribution)) =>
    /\ ~result.raised
    /\ (result.value >= 0 \/ result.value = Sentinel)

(***************************************************************************)
(* C4.  On a table with a negative entry, whatever the row count, what     *)
(* EntropyHXFromFrequencyDistribution and                                  *)
(* EntropyHYFromFrequencyDistribution return is -1, also when the other    *)
(* entries of the row or column offset the negative one.                   *)
(***************************************************************************)
C4_NegativeCellYieldsSentinel ==
  (/\ called \in MarginalOperations
   /\ HasNegative(distribution)
   /\ ~result.raised) =>
    result.value = Sentinel

(***************************************************************************)
(* C5.  Each of the four scalar operations, on a non-empty sequence with a *)
(* negative entry, and each differential operation with a negative bin     *)
(* size, returns -1 without raising; at least one validation check fails   *)
(* on its own, so the order of the checks does not matter.                 *)
(***************************************************************************)
C5_NegativeInputYieldsSentinel ==
  (/\ called \in ScalarOperations
   /\ Len(distribution) >= 1
   /\ \/ HasNegative(distribution)
      \/ called \in DifferentialOperations /\ binSize < 0) =>
    /\ ~result.raised
    /\ result.value = Sentinel
    /\ result.failed \in FailingChecks(called, distribution, binSize)

\* a negative probability in a sequence that sums to 1.0: the minimum check
\* is the one that rejects it
C5_Witness ==
  /\ called = "EntropyFromProbabilityDistribution"
  /\ HasNegative(distribution)
  /\ Sum(distribution) = Q
  /\ result.value = Sentinel
  /\ result.failed = "min"

(***************************************************************************)
(* C6 as stated.  On every sequence that passes the validation of          *)
(* EntropyFromProbabilityDistribution the entropy is non-negative, and it  *)
(* is 0 exactly when the sequence is a single mass point.                  *)
(***************************************************************************)
C6_ValidatedEntropyNonNegative ==
  (/\ called = "EntropyFromProbabilityDistribution"
   /\ result.failed = "none") =>
    /\ result.value >= 0
    /\ result.value = 0 <=> IsMassPoint(distribution)

(***************************************************************************)
(* C6 amended.  On every sequence that passes the validation of            *)
(* EntropyFromProbabilityDistribution and has no entry greater than 1.0    *)
(* the entropy is non-negative, and it is 0 exactly when the sequence is a *)
(* single mass point.                                                      *)
(***************************************************************************)
C6_ValidatedEntropyNonNegativeUpToOne ==
  (/\ called = "EntropyFromProbabilityDistribution"
   /\ result.failed = "none"
   /\ \A i \in 1..Len(distribution) : distribution[i] <= Q) =>
    /\ result.value >= 0
    /\ result.value = 0 <=> IsMassPoint(distribution)

\* a mass point among zero entries has entropy 0
C6_Witness ==
  /\ called = "EntropyFromProbabilityDistribution"
  /\ result.failed = "none"
  /\ Len(distribution) >= 2
  /\ IsMassPoint(distribution)
  /\ result.value = 0

(***************************************************************************)
(* C7.  With a row count r >= 1 that does not divide the length of the     *)
(* table (r greater than the length included),                             *)
(* EntropyHXFromFrequencyDistribution and                                  *)
(* EntropyHYFromFrequencyDistribution return -1 and add no cell to a row   *)
(* or column total; a row count below 1 gives what the row count 1 gives.  *)
(***************************************************************************)
C7_IndivisibleRowCountYieldsSentinel ==
  /\ (/\ called \in MarginalOperations
      /\ rows >= 1
      /\ Len(distribution) % rows # 0) =>
       /\ ~result.raised
       /\ result.value = Sentinel
       /\ result.added = 0
  /\ (called = "EntropyHXFromFrequencyDistribution" /\ rows < 1) =>
       result = EntropyHXFromFrequencyDistribution(distribution, 1)
  /\ (called = "EntropyHYFromFrequencyDistribution" /\ rows < 1) =>
       result = EntropyHYFromFrequencyDistribution(distribution, 1)

\* a row count greater than the length of a non-empty table
C7_Witness ==
  /\ called = "EntropyHYFromFrequencyDistribution"
  /\ Len(distribution) >= 1
  /\ rows > Len(distribution)
  /\ result.value = Sentinel
  /\ result.added = 0

(***************************************************************************)
(* C8.  On a non-empty sample, EntropyFromSampleDistribution returns what  *)
(* EntropyFromFrequencyDistribution returns on the occurrence counts of    *)
(* the distinct outcomes, and the same on every reordering of the sample.  *)
(***************************************************************************)
C8_SampleEntropyIsEntropyOfCounts ==
  (/\ called = "EntropyFromSampleDistribution"
   /\ Len(distribution) >= 1) =>
    /\ result = EntropyFromFrequencyDistribution(OccurrenceCounts(distribution))
    /\ \A p \in Permutations(1..Len(distribution)) :
         EntropyFromSampleDistribution(
           [i \in 1..Len(distribution) |-> distribution[p[i]]]) = result

\* a sample with a repeated outcome that is not adjacent to its repetition
C8_Witness ==
  /\ called = "EntropyFromSampleDistribution"
  /\ Len(distribution) = 3
  /\ distribution[1] = distribution[3]
  /\ distribution[1] # distribution[2]
  /\ result.value > 0

(***************************************************************************)
(* C9.  A differential operation returns -1 only when one of its           *)
(* validation checks failed: no input that passes them all has a computed  *)
(* entropy of -1.                                                          *)
(***************************************************************************)
C9_SentinelOnlyOnFailedValidation ==
  (/\ called \in DifferentialOperations
   /\ ~result.raised
   /\ result.value = Sentinel) =>
    result.failed # "none"

(***************************************************************************)
(* C10.  DifferentialEntropyFromProbabilityDistribution returns -1 by a    *)
(* failed validation check, without raising, for every bin size <= 0 and   *)
(* every sequence, so log2(binSize) is not evaluated then; the bin sizes   *)
(* it rejects for every sequence are those                                 *)
(* DifferentialEntropyFromFrequencyDistribution rejects for every          *)
(* sequence.                                                               *)
(***************************************************************************)
C10_NonPositiveBinSizeRejected ==
  /\ (/\ called = "DifferentialEntropyFromProbabilityDistribution"
      /\ binSize <= 0) =>
       /\ ~result.raised
       /\ result.value = Sentinel
       /\ result.failed # "none"
  /\ binSize \in BinSizesRejectedByProbability
       <=> binSize \in BinSizesRejectedByFrequency

\* bin size 0 with a sequence that is a valid probability distribution: only
\* the sum check, multiplied by the bin size, rejects it
C10_Witness ==
  /\ called = "DifferentialEntropyFromProbabilityDistribution"
  /\ binSize = 0
  /\ Len(distribution) >= 2
  /\ ~MinCheckFails(distribution)
  /\ Sum(distribution) = Q
  /\ result.failed = "sum"

====
